---- MODULE Spec2Model ----
(***************************************************************************)
(* Model of the paygine transaction engine (src/src/engine.rs,             *)
(* src/src/client.rs, src/src/transaction.rs).                             *)
(*                                                                         *)
(* Amounts are the f64 values of the source: small integers and 2^53, the  *)
(* first f64 from which the next integer is no f64.  Sums and differences  *)
(* are rounded as f64 rounds them (add, sub); fractions inside the engine, *)
(* NaN and the infinities are not modelled.  Option<T> is a                *)
(* sequence of length 0 (None) or 1 (Some).  Result<(), Option<Error>> is  *)
(* a record [tag, e]: Ok, Err(None) or Err(Some(msg)).  A row that is read  *)
(* but does not deserialize into a Transaction is passed over by the loop  *)
(* of Engine::process and leaves no trace (engine.rs:53), so it is a       *)
(* stuttering step.  A row that cannot be read (another number of fields   *)
(* than the header, an I/O error), like an input that cannot be opened     *)
(* again, ends the run: ReadFails (engine.rs:48-52).                       *)
(*                                                                         *)
(* SpecReport is the output of main (src/src/main.rs): the accounts a run  *)
(* has returned are written through serialize_with_precision; there the    *)
(* balances are counted in units of 10^-5, so that the digits the output   *)
(* drops are in the model.  The accounts written are those whose f64       *)
(* fields are the decimals themselves (FineValues, no sum of two of them)  *)
(* and on which the f64 product of serialize_with_precision falls on the   *)
(* same side of every integer as the exact product.                        *)
(***************************************************************************)
EXTENDS Integers, Sequences, FiniteSets, TLC

\* ------------------------------------------------------------------ bounds
MaxClient == 2
MaxTx == 3
MaxAmount == 1
MaxRows == 5
MaxFine == 110

ClientIds == 1..MaxClient
TxIds == 1..MaxTx
\* ------------------------------------------------------------------ f64
\* An f64 holds every integer up to 2^53 and, from 2^53 on, every 2nd, from
\* 2^54 on every 4th, and so on; the sum and the difference of two f64 are
\* the f64 nearest to the exact result, the one with the even significand when
\* two are as near.  The numbers of the model are hi * 2^53 + lo with small
\* hi and lo, held as the integer hi * Big + lo: Big stands for 2^53
\* (9007199254740992.0), whatever is written below Big / 2 stands for itself.
\* The order of the integers is the order of the numbers they stand for, and
\* their + and - are the exact sum and difference.
Big == 67108864

\* the part lo of hi * Big + lo, nearer to zero than Big / 2
Lo(n) == ((n + Big \div 2) % Big) - Big \div 2

Hi(n) == (n - Lo(n)) \div Big

\* the distance of the f64 next to each other from m * 2^53 on, m >= 1
RECURSIVE Ulp(_)
Ulp(m) == IF m < 2 THEN 2 ELSE 2 * Ulp(m \div 2)

\* the multiple of u nearest to lo, the multiple of 2u of two as near
Nearest(lo, u) ==
    LET down == lo - (lo % u)
        up == down + u
    IN  IF 2 * (lo % u) < u THEN down
        ELSE IF 2 * (lo % u) > u THEN up
        ELSE IF down % (2 * u) = 0 THEN down ELSE up

\* the f64 nearest to the number n >= 0
RoundUnsigned(n) ==
    LET m == IF Lo(n) >= 0 THEN Hi(n) ELSE Hi(n) - 1
    IN  IF m < 1 THEN n ELSE Hi(n) * Big + Nearest(Lo(n), Ulp(m))

\* the f64 nearest to the number n
f64(n) == IF n >= 0 THEN RoundUnsigned(n) ELSE 0 - RoundUnsigned(0 - n)

\* += and -= of f64
add(x, y) == f64(x + y)

sub(x, y) == f64(x - y)

\* amounts of the general rows: one negative amount, the small positive ones
\* and 2^53, from which on the sums are rounded
AmountValues == {0 - 1} \cup (1..MaxAmount) \cup {Big}
\* amounts of the rows of a log without negative amounts
NonNegAmountValues == (0..MaxAmount) \cup {Big}

None == <<>>
Some(x) == <<x>>

\* the amount column of a decoded row: Option<f64>
Amounts == {None} \cup {Some(a) : a \in AmountValues}
NonNegAmounts == {None} \cup {Some(a) : a \in NonNegAmountValues}

\* ------------------------------------------------------------------ state
VARIABLES
    clients,                  \* Engine.clients: HashMap<u16, Client>
    processed_transactions,   \* Engine.processed_transactions: id -> row at the stored Position
    disputed_transactions,    \* Engine.disputed_transactions: id -> Transaction
    status,                   \* position of Engine::process: running / finished / failed / panicked
    rows,                     \* rows of the input read so far
    last,                     \* the record handled last and what became of it
    pre,                      \* history: the account as it was before the Dispute applied by
                              \* the last row, kept over a Resolve of the same id that follows
    closed,                   \* history: id -> the kind of row (resolve, chargeback)
                              \* that ended its latest ended dispute
    booked,                   \* history: client -> deposits less withdrawals and chargebacks
                              \* that went through on its account
    skipped,                  \* history: ids of the Deposit and Withdrawal rows passed over
    report                    \* main: the rows written for the accounts Engine::process returned

vars == <<clients, processed_transactions, disputed_transactions, status, rows, last, pre,
          closed, booked, skipped, report>>

\* ------------------------------------------------------------------ results
Ok == [tag |-> "Ok", e |-> None]
ErrNone == [tag |-> "Err", e |-> None]
ErrSome(msg) == [tag |-> "Err", e |-> Some(msg)]

\* the `?` operator on an anyhow::Result inside a fn returning
\* Result<_, Option<Error>>: From<Error> for Option<Error> is Some
MaybeError(r) == IF r.tag = "Ok" THEN Ok ELSE IF r.e = None THEN ErrNone ELSE r

\* ------------------------------------------------------------------ Transaction
Transaction(kind, client, id, amount) ==
    [kind |-> kind, client |-> client, id |-> id, amount |-> amount]

Kind == {"deposit", "withdrawal", "dispute", "resolve", "chargeback"}

\* mutant: a missing amount is read as zero
get_amount_or_zero(tx) ==
    IF tx.amount = None
      THEN [r |-> Ok, v |-> 0]
      ELSE [r |-> Ok, v |-> tx.amount[1]]

\* Transaction::get_amount: anyhow::Result<f64>
get_amount(tx) ==
    IF tx.amount = None
      THEN [r |-> ErrSome("missing amount field"), v |-> 0]
      ELSE [r |-> Ok, v |-> tx.amount[1]]

\* ------------------------------------------------------------------ Client
NewClient == [available |-> 0, held |-> 0, total |-> 0, locked |-> FALSE]

\* mutant: the lock is not looked at
check_lock_open(a) == Ok

check_lock(a) == IF a.locked THEN ErrNone ELSE Ok

can_reduce_balance(a, amount) ==
    IF a.available < amount \/ a.total < amount
      THEN ErrSome("insufficient funds")
      ELSE Ok

can_reduce_held(a, amount) ==
    IF a.held < amount
      THEN ErrSome("insufficient funds held")
      ELSE Ok

\* every operation returns the account it leaves and its Result<(), MaybeError>
client_deposit(a, amount) ==
    IF check_lock(a).tag = "Err"
      THEN [r |-> check_lock(a), a |-> a]
      ELSE [r |-> Ok,
            a |-> [a EXCEPT !.available = add(@, amount), !.total = add(@, amount)]]

client_withdrawal(a, amount) ==
    IF check_lock(a).tag = "Err"
      THEN [r |-> check_lock(a), a |-> a]
      ELSE IF can_reduce_balance(a, amount).tag = "Err"
        THEN [r |-> MaybeError(can_reduce_balance(a, amount)), a |-> a]
        ELSE [r |-> Ok,
              a |-> [a EXCEPT !.available = sub(@, amount), !.total = sub(@, amount)]]

dispute_deposit(a, amount) ==
    IF check_lock(a).tag = "Err"
      THEN [r |-> check_lock(a), a |-> a]
      ELSE IF can_reduce_balance(a, amount).tag = "Err"
        THEN [r |-> MaybeError(can_reduce_balance(a, amount)), a |-> a]
        ELSE [r |-> Ok,
              a |-> [a EXCEPT !.available = sub(@, amount), !.held = add(@, amount)]]

resolve_deposit(a, amount) ==
    IF check_lock(a).tag = "Err"
      THEN [r |-> check_lock(a), a |-> a]
      ELSE IF can_reduce_held(a, amount).tag = "Err"
        THEN [r |-> MaybeError(can_reduce_held(a, amount)), a |-> a]
        ELSE [r |-> Ok,
              a |-> [a EXCEPT !.available = add(@, amount), !.held = sub(@, amount)]]

\* mutant: the chargeback does not lock the account
client_chargeback_unlocked(a, amount) ==
    IF check_lock(a).tag = "Err"
      THEN [r |-> check_lock(a), a |-> a]
      ELSE IF can_reduce_held(a, amount).tag = "Err"
        THEN [r |-> MaybeError(can_reduce_held(a, amount)), a |-> a]
        ELSE [r |-> Ok,
              a |-> [a EXCEPT !.held = sub(@, amount), !.total = sub(@, amount)]]

client_chargeback(a, amount) ==
    IF check_lock(a).tag = "Err"
      THEN [r |-> check_lock(a), a |-> a]
      ELSE IF can_reduce_held(a, amount).tag = "Err"
        THEN [r |-> MaybeError(can_reduce_held(a, amount)), a |-> a]
        ELSE [r |-> Ok,
              a |-> [a EXCEPT !.held = sub(@, amount), !.total = sub(@, amount),
                              !.locked = TRUE]]

\* ------------------------------------------------------------------ output
\* the factor of serialize_with_precision
Precision == 1000

\* Where the accounts are written out, a balance is the count of units of
\* 10^-5, a hundredth of 1/Precision: the whole is Unit.
Unit == 100 * Precision

\* f64::trunc of num / den: the integer part, towards zero
trunc(num, den) == IF num >= 0 THEN num \div den ELSE 0 - ((0 - num) \div den)

\* balances in units of 10^-5
FineValues == (0 - MaxFine)..MaxFine

\* serialize_with_precision: (x * 1000.0).trunc() / 1000.0, for the f64 x
\* nearest to a decimal of FineValues.  There the rounded product x * 1000.0
\* and the exact one have the same integer part; beyond (1.001 * 1000.0 is
\* 1000.9999999999999) they need not, and the operator is not defined.
\* The sign of a zero (-0.0) is not kept.
serialize_with_precision(x) ==
    CASE x \in FineValues -> (trunc(x * Precision, Unit) * Unit) \div Precision

\* #[derive(Serialize)] of Client: the row written for an account
Row(a) ==
    [available |-> serialize_with_precision(a.available),
     held |-> serialize_with_precision(a.held),
     total |-> serialize_with_precision(a.total),
     locked |-> a.locked]

\* ------------------------------------------------------------------ Engine
\* HashMap::remove and HashMap::insert
\* mutant: nothing is removed
Remove_nothing(m, id) == m

Remove(m, id) == [k \in DOMAIN m \ {id} |-> m[k]]

Insert(m, id, v) == [k \in DOMAIN m \cup {id} |-> IF k = id THEN v ELSE m[k]]

\* Engine::client: entry(client_id).or_insert_with(Client::new)
client(cl, client_id) ==
    IF client_id \in DOMAIN cl THEN cl ELSE cl @@ (client_id :> NewClient)

\* mutant: a registered id is overwritten without complaint
add_transaction_overwrite(pt, id, row) == [r |-> Ok, pt |-> Insert(pt, id, row)]

\* Engine::add_transaction: the Position stored is that of the row being handled
add_transaction(pt, id, row) ==
    IF id \notin DOMAIN pt
      THEN [r |-> Ok, pt |-> Insert(pt, id, row)]
      ELSE [r |-> ErrSome("duplicate tx index"), pt |-> pt]

\* Engine::load_transaction: seek to the stored Position and decode the row
\* again; io = FALSE is a failure of the seek, the read or the decoding
load_transaction(pt, id, io) ==
    IF id \notin DOMAIN pt
      THEN [r |-> ErrSome("id not found"), tx |-> Transaction("deposit", 0, id, None)]
      ELSE IF ~io
        THEN [r |-> ErrSome("read failed"), tx |-> Transaction("deposit", 0, id, None)]
        ELSE [r |-> Ok, tx |-> pt[id]]

\* what a handler leaves behind: its result, the three maps, the log line
Out(r, cl, pt, dt, note) ==
    [r |-> r, clients |-> cl, processed_transactions |-> pt,
     disputed_transactions |-> dt, note |-> note]

Note(r, applied) ==
    IF r.tag = "Ok" THEN applied
    ELSE IF r.e = None THEN "client locked" ELSE r.e[1]

\* mutant: the id is registered before the account is asked
deposit_registers_first(cl, pt, dt, transaction) ==
    LET am == get_amount(transaction) IN
    IF am.r.tag = "Err"
      THEN Out(MaybeError(am.r), cl, pt, dt, Note(am.r, ""))
      ELSE
        LET c == transaction.client
            ad == add_transaction(pt, transaction.id, transaction)
            op == client_deposit(client(cl, c)[c], am.v)
            cl2 == [client(cl, c) EXCEPT ![c] = op.a]
        IN  IF ad.r.tag = "Err"
              THEN Out(MaybeError(ad.r), cl, pt, dt, Note(ad.r, ""))
              ELSE Out(op.r, cl2, ad.pt, dt, Note(op.r, "applied"))

\* Engine::deposit
deposit(cl, pt, dt, transaction) ==
    LET am == get_amount(transaction) IN
    IF am.r.tag = "Err"
      THEN Out(MaybeError(am.r), cl, pt, dt, Note(am.r, ""))
      ELSE
        LET c == transaction.client
            op == client_deposit(client(cl, c)[c], am.v)
            cl2 == [client(cl, c) EXCEPT ![c] = op.a]
        IN  IF op.r.tag = "Err"
              THEN Out(op.r, cl2, pt, dt, Note(op.r, ""))
              ELSE
                LET ad == add_transaction(pt, transaction.id, transaction)
                IN  Out(MaybeError(ad.r), cl2, ad.pt, dt, Note(ad.r, "applied"))

\* Engine::withdrawal
withdrawal(cl, pt, dt, transaction) ==
    LET am == get_amount(transaction) IN
    IF am.r.tag = "Err"
      THEN Out(MaybeError(am.r), cl, pt, dt, Note(am.r, ""))
      ELSE
        LET c == transaction.client
            op == client_withdrawal(client(cl, c)[c], am.v)
            cl2 == [client(cl, c) EXCEPT ![c] = op.a]
        IN  IF op.r.tag = "Err"
              THEN Out(op.r, cl2, pt, dt, Note(op.r, ""))
              ELSE
                LET ad == add_transaction(pt, transaction.id, transaction)
                IN  Out(MaybeError(ad.r), cl2, ad.pt, dt, Note(ad.r, "applied"))

\* unreachable!(..): the thread panics
Panic(msg) == [tag |-> "Panic", e |-> Some(msg)]

\* mutant: a dispute that is already open is not looked for
dispute_again(cl, pt, dt, transaction, io) ==
    LET ld == load_transaction(pt, transaction.id, io)
        tx == ld.tx
        c == transaction.client
    IN
    IF ld.r.tag = "Err"
      THEN Out(ErrNone, cl, pt, dt, ld.r.e[1])
    ELSE IF tx.client # transaction.client
      THEN Out(Ok, cl, pt, dt, "tx clients mismatch")
    ELSE IF tx.kind # "deposit"
      THEN Out(Ok, cl, pt, dt, "only deposit tx can be disputed")
    ELSE IF get_amount(tx).r.tag = "Err"
      THEN Out(MaybeError(get_amount(tx).r), cl, pt, dt, Note(get_amount(tx).r, ""))
    ELSE
      LET op == dispute_deposit(client(cl, c)[c], get_amount(tx).v)
          cl2 == [client(cl, c) EXCEPT ![c] = op.a]
      IN  IF op.r.tag = "Err"
            THEN Out(op.r, cl2, pt, dt, Note(op.r, ""))
            ELSE Out(Ok, cl2, pt, Insert(dt, tx.id, tx), "applied")

\* mutant: a transaction of any kind can be disputed
dispute_any_kind(cl, pt, dt, transaction, io) ==
    LET ld == load_transaction(pt, transaction.id, io)
        tx == ld.tx
        c == transaction.client
    IN
    IF ld.r.tag = "Err"
      THEN Out(ErrNone, cl, pt, dt, ld.r.e[1])
    ELSE IF tx.client # transaction.client
      THEN Out(Ok, cl, pt, dt, "tx clients mismatch")
    ELSE IF tx.id \in DOMAIN dt
      THEN Out(Ok, cl, pt, dt, "already disputed")
    ELSE IF get_amount(tx).r.tag = "Err"
      THEN Out(MaybeError(get_amount(tx).r), cl, pt, dt, Note(get_amount(tx).r, ""))
    ELSE
      LET op == dispute_deposit(client(cl, c)[c], get_amount(tx).v)
          cl2 == [client(cl, c) EXCEPT ![c] = op.a]
      IN  IF op.r.tag = "Err"
            THEN Out(op.r, cl2, pt, dt, Note(op.r, ""))
            ELSE Out(Ok, cl2, pt, Insert(dt, tx.id, tx), "applied")

\* Engine::dispute
dispute(cl, pt, dt, transaction, io) ==
    LET ld == load_transaction(pt, transaction.id, io)
        tx == ld.tx
        c == transaction.client
    IN
    IF ld.r.tag = "Err"
      THEN Out(ErrNone, cl, pt, dt, ld.r.e[1])
    ELSE IF tx.client # transaction.client
      THEN Out(Ok, cl, pt, dt, "tx clients mismatch")
    ELSE IF tx.id \in DOMAIN dt
      THEN Out(Ok, cl, pt, dt, "already disputed")
    ELSE IF tx.kind # "deposit"
      THEN Out(Ok, cl, pt, dt, "only deposit tx can be disputed")
    ELSE IF get_amount(tx).r.tag = "Err"
      THEN Out(MaybeError(get_amount(tx).r), cl, pt, dt, Note(get_amount(tx).r, ""))
    ELSE
      LET op == dispute_deposit(client(cl, c)[c], get_amount(tx).v)
          cl2 == [client(cl, c) EXCEPT ![c] = op.a]
      IN  IF op.r.tag = "Err"
            THEN Out(op.r, cl2, pt, dt, Note(op.r, ""))
            ELSE Out(Ok, cl2, pt, Insert(dt, tx.id, tx), "applied")

\* mutant: the transaction is looked up among all registered ones
resolve_undisputed(cl, pt, dt, transaction) ==
    LET c == transaction.client IN
    IF transaction.id \notin DOMAIN pt
      THEN Out(ErrNone, cl, pt, dt, "not disputed")
    ELSE
      LET tx == pt[transaction.id] IN
      IF tx.client # transaction.client
        THEN Out(Ok, cl, pt, dt, "tx clients mismatch")
      ELSE IF tx.kind # "deposit"
        THEN Out(Panic("only deposit tx can be disputed"), cl, pt, dt, "unreachable")
      ELSE IF get_amount(tx).r.tag = "Err"
        THEN Out(MaybeError(get_amount(tx).r), cl, pt, dt, Note(get_amount(tx).r, ""))
      ELSE
        LET op == resolve_deposit(client(cl, c)[c], get_amount(tx).v)
            cl2 == [client(cl, c) EXCEPT ![c] = op.a]
        IN  IF op.r.tag = "Err"
              THEN Out(op.r, cl2, pt, dt, Note(op.r, ""))
              ELSE Out(Ok, cl2, pt, Remove(dt, tx.id), "applied")

\* Engine::resolve
resolve(cl, pt, dt, transaction) ==
    LET c == transaction.client IN
    IF transaction.id \notin DOMAIN dt
      THEN Out(ErrNone, cl, pt, dt, "not disputed")
    ELSE
      LET tx == dt[transaction.id] IN
      IF tx.client # transaction.client
        THEN Out(Ok, cl, pt, dt, "tx clients mismatch")
      ELSE IF tx.kind # "deposit"
        THEN Out(Panic("only deposit tx can be disputed"), cl, pt, dt, "unreachable")
      ELSE IF get_amount(tx).r.tag = "Err"
        THEN Out(MaybeError(get_amount(tx).r), cl, pt, dt, Note(get_amount(tx).r, ""))
      ELSE
        LET op == resolve_deposit(client(cl, c)[c], get_amount(tx).v)
            cl2 == [client(cl, c) EXCEPT ![c] = op.a]
        IN  IF op.r.tag = "Err"
              THEN Out(op.r, cl2, pt, dt, Note(op.r, ""))
              ELSE Out(Ok, cl2, pt, Remove(dt, tx.id), "applied")

\* mutant: the client of the row is not compared with the transaction's
chargeback_any_client(cl, pt, dt, transaction) ==
    LET c == transaction.client IN
    IF transaction.id \notin DOMAIN dt
      THEN Out(ErrNone, cl, pt, dt, "not disputed")
    ELSE
      LET tx == dt[transaction.id] IN
      IF get_amount(tx).r.tag = "Err"
        THEN Out(MaybeError(get_amount(tx).r), cl, pt, dt, Note(get_amount(tx).r, ""))
      ELSE
        LET op == client_chargeback(client(cl, c)[c], get_amount(tx).v)
            cl2 == [client(cl, c) EXCEPT ![c] = op.a]
        IN  IF op.r.tag = "Err"
              THEN Out(op.r, cl2, pt, dt, Note(op.r, ""))
              ELSE Out(Ok, cl2, pt, Remove(dt, tx.id), "applied")

\* Engine::chargeback
chargeback(cl, pt, dt, transaction) ==
    LET c == transaction.client IN
    IF transaction.id \notin DOMAIN dt
      THEN Out(ErrNone, cl, pt, dt, "not disputed")
    ELSE
      LET tx == dt[transaction.id] IN
      IF tx.client # transaction.client
        THEN Out(Ok, cl, pt, dt, "tx clients mismatch")
      ELSE IF get_amount(tx).r.tag = "Err"
        THEN Out(MaybeError(get_amount(tx).r), cl, pt, dt, Note(get_amount(tx).r, ""))
      ELSE
        LET op == client_chargeback(client(cl, c)[c], get_amount(tx).v)
            cl2 == [client(cl, c) EXCEPT ![c] = op.a]
        IN  IF op.r.tag = "Err"
              THEN Out(op.r, cl2, pt, dt, Note(op.r, ""))
              ELSE Out(Ok, cl2, pt, Remove(dt, tx.id), "applied")

\* Engine::process_transaction: dispatch by kind
process_transaction(cl, pt, dt, transaction, io) ==
    CASE transaction.kind = "deposit" -> deposit(cl, pt, dt, transaction)
      [] transaction.kind = "withdrawal" -> withdrawal(cl, pt, dt, transaction)
      [] transaction.kind = "dispute" -> dispute(cl, pt, dt, transaction, io)
      [] transaction.kind = "resolve" -> resolve(cl, pt, dt, transaction)
      [] transaction.kind = "chargeback" -> chargeback(cl, pt, dt, transaction)

\* one turn of the loop of Engine::process, as the state it leaves:
\* Err(Some(e)) ends the run with Err(e); Ok and Err(None) go on to the next row
after(transaction, io) ==
    LET out == process_transaction(clients, processed_transactions,
                                   disputed_transactions, transaction, io)
    IN  [clients |-> out.clients,
         processed_transactions |-> out.processed_transactions,
         disputed_transactions |-> out.disputed_transactions,
         status |-> IF out.r.tag = "Panic" THEN "panicked"
                    ELSE IF out.r.tag = "Err" /\ out.r.e # None THEN "failed"
                    ELSE "running",
         note |-> out.note]

\* the client's ledger so far
Booked(c) == IF c \in DOMAIN booked THEN booked[c] ELSE 0

\* what the row adds to the ledger of its client: the amount of a Deposit or
\* Withdrawal whose account operation went through (the registration of the id
\* comes after it), the amount of the deposit charged back
Entry(transaction, note) ==
    CASE transaction.kind = "deposit" /\ note \in {"applied", "duplicate tx index"}
           -> transaction.amount[1]
      [] transaction.kind = "withdrawal" /\ note \in {"applied", "duplicate tx index"}
           -> 0 - transaction.amount[1]
      [] transaction.kind = "chargeback" /\ note = "applied"
           -> 0 - disputed_transactions[transaction.id].amount[1]
      [] OTHER -> 0

process(transaction, io) ==
    /\ status = "running"
    /\ rows < MaxRows
    /\ rows' = rows + 1
    /\ \E next \in {after(transaction, io)} :
           /\ clients' = next.clients
           /\ processed_transactions' = next.processed_transactions
           /\ disputed_transactions' = next.disputed_transactions
           /\ status' = next.status
           /\ last' = [kind |-> transaction.kind, note |-> next.note]
           /\ pre' = IF transaction.kind = "dispute" /\ next.note = "applied"
                       THEN Some([id |-> transaction.id, client |-> transaction.client,
                                  stage |-> "disputed",
                                  account |-> client(clients, transaction.client)[transaction.client]])
                     ELSE IF /\ transaction.kind = "resolve" /\ next.note = "applied"
                             /\ pre # None
                             /\ pre[1].stage = "disputed" /\ pre[1].id = transaction.id
                       THEN Some([pre[1] EXCEPT !.stage = "resolved"])
                     ELSE None
           /\ closed' = IF transaction.kind \in {"resolve", "chargeback"} /\ next.note = "applied"
                          THEN Insert(closed, transaction.id, transaction.kind)
                          ELSE closed
           /\ booked' = IF Entry(transaction, next.note) = 0
                          THEN booked
                          ELSE Insert(booked, transaction.client,
                                      Booked(transaction.client) + Entry(transaction, next.note))
           /\ skipped' = IF /\ transaction.kind \in {"deposit", "withdrawal"}
                              /\ next.status = "running" /\ next.note # "applied"
                           THEN skipped \cup {transaction.id}
                           ELSE skipped
    /\ report' = report

\* ------------------------------------------------------------------ actions
Deposit(c, id, amount) == process(Transaction("deposit", c, id, amount), TRUE)

Withdrawal(c, id, amount) == process(Transaction("withdrawal", c, id, amount), TRUE)

Dispute(c, id, io) == process(Transaction("dispute", c, id, None), io)

Resolve(c, id) == process(Transaction("resolve", c, id, None), TRUE)

Chargeback(c, id) == process(Transaction("chargeback", c, id, None), TRUE)

\* Engine::process returns the csv Error of Self::reader(..)?, byte_headers()?
\* or read_byte_record(..)?: the input cannot be opened again or read, or the
\* next row has another number of fields than the header (the Reader is not
\* flexible).  No row is handled.
ReadFails ==
    /\ status = "running"
    /\ status' = "failed"
    /\ last' = [kind |-> "none", note |-> "csv error"]
    /\ UNCHANGED <<clients, processed_transactions, disputed_transactions, rows, pre,
                   closed, booked, skipped, report>>

\* end of input: Ok(self.clients)
Finish ==
    /\ status = "running"
    /\ status' = "finished"
    /\ UNCHANGED <<clients, processed_transactions, disputed_transactions, rows, last, pre,
                   closed, booked, skipped, report>>

Init ==
    /\ clients = <<>>
    /\ processed_transactions = <<>>
    /\ disputed_transactions = <<>>
    /\ status = "running"
    /\ last = [kind |-> "none", note |-> ""]
    /\ rows = 0
    /\ pre = None
    /\ closed = <<>>
    /\ booked = <<>>
    /\ skipped = {}
    /\ report = <<>>

\* Clients and transaction ids are HashMap keys, compared for equality only, so
\* the rows are enumerated up to a renaming of them: a row names a client that
\* has an account or the least client that has none, and a Deposit or
\* Withdrawal carries a registered id or the least id not registered yet.
RowClients == {c \in ClientIds : c <= Cardinality(DOMAIN clients) + 1}

RowTxIds == {id \in TxIds : id <= Cardinality(DOMAIN processed_transactions) + 1}

Next ==
    \/ \E c \in RowClients, id \in RowTxIds, amount \in Amounts : Deposit(c, id, amount)
    \/ \E c \in RowClients, id \in RowTxIds, amount \in Amounts : Withdrawal(c, id, amount)
    \/ \E c \in RowClients, id \in TxIds, io \in BOOLEAN : Dispute(c, id, io)
    \/ \E c \in RowClients, id \in TxIds : Resolve(c, id)
    \/ \E c \in RowClients, id \in TxIds : Chargeback(c, id)
    \/ ReadFails
    \/ Finish

Spec == Init /\ [][Next]_vars

\* the same engine fed rows whose amounts are all >= 0
NextNonNeg ==
    \/ \E c \in RowClients, id \in RowTxIds, amount \in NonNegAmounts : Deposit(c, id, amount)
    \/ \E c \in RowClients, id \in RowTxIds, amount \in NonNegAmounts : Withdrawal(c, id, amount)
    \/ \E c \in RowClients, id \in TxIds, io \in BOOLEAN : Dispute(c, id, io)
    \/ \E c \in RowClients, id \in TxIds : Resolve(c, id)
    \/ \E c \in RowClients, id \in TxIds : Chargeback(c, id)
    \/ ReadFails
    \/ Finish

SpecNonNeg == Init /\ [][NextNonNeg]_vars

\* ------------------------------------------------------------------ main
\* main, after Engine::process returned Ok(clients): every account is written
Serialize ==
    /\ status = "finished"
    /\ status' = "printed"
    /\ report' = [c \in DOMAIN clients |-> Row(clients[c])]
    /\ UNCHANGED <<clients, processed_transactions, disputed_transactions, rows, last, pre,
                   closed, booked, skipped>>

\* The account map a run has returned, the engine itself being dropped: one
\* account, its balances counted in units of 10^-5.  It is the account left by
\* one Deposit of x (available = total = 0.0 + x), or by that Deposit and its
\* Dispute (available = x - x, held = 0.0 + x): every field is the f64 of the
\* row or zero, none is a rounded sum.
InitReport ==
    /\ \E x \in FineValues, disputed \in BOOLEAN :
          clients = (1 :> IF disputed
                            THEN [available |-> 0, held |-> x, total |-> x, locked |-> FALSE]
                            ELSE [available |-> x, held |-> 0, total |-> x, locked |-> FALSE])
    /\ processed_transactions = <<>>
    /\ disputed_transactions = <<>>
    /\ status = "finished"
    /\ last = [kind |-> "none", note |-> ""]
    /\ rows = 0
    /\ pre = None
    /\ closed = <<>>
    /\ booked = <<>>
    /\ skipped = {}
    /\ report = <<>>

NextReport == Serialize

SpecReport == InitReport /\ [][NextReport]_vars

\* ------------------------------------------------------------------ properties
\* the account of client c as Engine::client would hand it out
Account(c) == client(clients, c)[c]

Applied == last.note = "applied"

Running == status = "running"

\* C1: after every record, every account has total = available + held.
C1_TotalIsAvailablePlusHeld ==
    \A c \in DOMAIN clients :
        clients[c].total = clients[c].available + clients[c].held

\* C2: fed rows whose amounts are all >= 0, every account keeps available,
\* held and total >= 0, and withdrawal and dispute are applied only when
\* available >= amount and total >= amount, resolve and chargeback only when
\* held >= amount.
C2_NonNegative ==
    \A c \in DOMAIN clients :
        clients[c].available >= 0 /\ clients[c].held >= 0 /\ clients[c].total >= 0

C2_Guards ==
    /\ (last'.kind = "withdrawal" /\ last'.note \in {"applied", "duplicate tx index"})
        => \A c \in ClientIds, id \in TxIds, a \in NonNegAmountValues :
              Withdrawal(c, id, Some(a))
                => Account(c).available >= a /\ Account(c).total >= a
    /\ (last'.kind = "dispute" /\ last'.note = "applied")
        => \A c \in ClientIds, id \in DOMAIN processed_transactions :
              Dispute(c, id, TRUE)
                => /\ Account(c).available >= processed_transactions[id].amount[1]
                   /\ Account(c).total >= processed_transactions[id].amount[1]
    /\ (last'.kind \in {"resolve", "chargeback"} /\ last'.note = "applied")
        => \A c \in ClientIds, id \in DOMAIN processed_transactions :
              (Resolve(c, id) \/ Chargeback(c, id))
                => Account(c).held >= processed_transactions[id].amount[1]

\* C2: with amounts >= 0 no balance is ever negative, and every applied
\* reduction met its funds guard.
C2_BalancesNeverNegative == []C2_NonNegative /\ [][C2_Guards]_vars

\* the row left every map of the engine as it was
Untouched ==
    /\ clients' = clients
    /\ processed_transactions' = processed_transactions
    /\ disputed_transactions' = disputed_transactions

\* the row left the account of client c as it was (created empty at most)
AccountKept(c) == client(clients', c)[c] = Account(c)

\* C3: a Withdrawal above the available funds, or a Dispute of a deposit above
\* the available funds, is skipped: the account is unchanged, nothing is
\* registered or marked disputed, and processing goes on.
C3_WithdrawalStep ==
    \A c \in ClientIds, id \in TxIds, a \in AmountValues :
        (/\ Withdrawal(c, id, Some(a))
         /\ ~Account(c).locked
         /\ a > Account(c).available)
        => /\ status' = "running"
           /\ AccountKept(c)
           /\ processed_transactions' = processed_transactions

C3_DisputeStep ==
    \A c \in ClientIds, id \in TxIds :
        (/\ Dispute(c, id, TRUE)
         /\ id \in DOMAIN processed_transactions
         /\ id \notin DOMAIN disputed_transactions
         /\ processed_transactions[id].client = c
         /\ processed_transactions[id].kind = "deposit"
         /\ ~Account(c).locked
         /\ processed_transactions[id].amount[1] > Account(c).available)
        => /\ status' = "running"
           /\ AccountKept(c)
           /\ disputed_transactions' = disputed_transactions

\* C3: insufficient available funds skip the row and the run goes on.
C3_InsufficientFundsRecoverable == [][C3_WithdrawalStep /\ C3_DisputeStep]_vars

\* C4 as claimed: a Deposit or Withdrawal whose id is already registered ends
\* the run with a fatal error (no account map is returned), whatever the state
\* of the account, a locked one included.
C4_DuplicateAlwaysFatal ==
    [][\A c \in ClientIds, id \in TxIds, am \in Amounts :
          (/\ Deposit(c, id, am) \/ Withdrawal(c, id, am)
           /\ id \in DOMAIN processed_transactions)
          => status' = "failed"]_vars

\* C4 amended: a Deposit or Withdrawal whose id is already registered ends the
\* run with a fatal error when the target account is not locked (the
\* duplicate-id error once the row has an amount and the account operation
\* went through); on a locked account a row with an amount is skipped and the
\* run goes on.  Stated of every row that can follow a reachable state.
C4_Row(kind, c, id, am) ==
    LET next == after(Transaction(kind, c, id, am), TRUE) IN
    /\ next.processed_transactions = processed_transactions
    /\ ~Account(c).locked => next.status = "failed"
    /\ am = None => next.status = "failed" /\ next.note = "missing amount field"
    /\ (am # None /\ Account(c).locked)
         => /\ next.status = "running" /\ next.note = "client locked"
            /\ next.clients = clients
            /\ next.disputed_transactions = disputed_transactions
    /\ (am # None /\ ~Account(c).locked)
         => next.note = IF kind = "withdrawal"
                           /\ (am[1] > Account(c).available \/ am[1] > Account(c).total)
                          THEN "insufficient funds"
                          ELSE "duplicate tx index"

\* C4 amended: in every reachable state, every row with a registered id ends
\* the run unless its account is locked.
C4_DuplicateFatalUnlessLocked ==
    Running =>
      \A id \in DOMAIN processed_transactions :
          \A c \in ClientIds, am \in Amounts, kind \in {"deposit", "withdrawal"} :
              C4_Row(kind, c, id, am)

\* the run ended on a duplicate id
C4_Witness ==
    /\ status = "failed"
    /\ last.note = "duplicate tx index"
    /\ processed_transactions # <<>>

\* C5, the part every reading shares: a locked account never changes again
\* (locked stays TRUE, balances stay), whichever row is handled.
C5_LockedStays ==
    \A c \in DOMAIN clients :
        clients[c].locked => c \in DOMAIN clients' /\ clients'[c] = clients[c]

\* C5 as claimed: every later row naming a locked client, of any kind, is
\* skipped as a recoverable error and the run goes on.
C5_AllRecoverable ==
    \A c \in DOMAIN clients :
        clients[c].locked =>
          \A id \in TxIds, am \in Amounts, io \in BOOLEAN :
              (\/ Deposit(c, id, am) \/ Withdrawal(c, id, am)
               \/ Dispute(c, id, io) \/ Resolve(c, id) \/ Chargeback(c, id))
              => status' = "running" /\ Untouched /\ last'.note # "applied"

\* C5 as claimed: a locked account never changes and every row naming it is
\* skipped as a recoverable error.
C5_LockedRejectsEveryRow == [][C5_LockedStays /\ C5_AllRecoverable]_vars

\* C5 amended: a later row naming a locked client leaves every account as it
\* was; it is skipped and the run goes on, except a Deposit or Withdrawal with
\* no amount, which ends the run with the missing-amount error.  Rows of
\* other, unlocked clients are still applied.
C5_Rejected ==
    \A c \in DOMAIN clients :
        clients[c].locked =>
          /\ \A id \in TxIds, am \in Amounts :
                (Deposit(c, id, am) \/ Withdrawal(c, id, am))
                => /\ Untouched
                   /\ IF am = None
                        THEN status' = "failed" /\ last'.note = "missing amount field"
                        ELSE status' = "running" /\ last'.note = "client locked"
          /\ \A id \in TxIds, io \in BOOLEAN :
                (Dispute(c, id, io) \/ Resolve(c, id) \/ Chargeback(c, id))
                => status' = "running" /\ Untouched /\ last'.note # "applied"

C5_OthersProcessed ==
    \A c \in DOMAIN clients :
        clients[c].locked =>
          \A d \in ClientIds \ {c}, id \in TxIds \ DOMAIN processed_transactions,
             a \in AmountValues :
              (~Account(d).locked /\ Deposit(d, id, Some(a)))
              => /\ status' = "running" /\ last'.note = "applied"
                 /\ clients'[d].available = add(Account(d).available, a)
                 /\ id \in DOMAIN processed_transactions'

\* C5 amended: a locked account never changes; rows naming it are skipped,
\* or end the run when a Deposit or Withdrawal lacks its amount; rows of other
\* clients are applied.
C5_LockedForGood == [][C5_LockedStays /\ C5_Rejected /\ C5_OthersProcessed]_vars

\* a row naming a client locked by a chargeback was turned away
C5_Witness ==
    /\ last.note = "client locked"
    /\ status = "running"
    /\ \E c \in DOMAIN clients : clients[c].locked

\* C6: a Dispute of an id whose dispute is open changes no account and no
\* dispute entry, and the run goes on.
C6_Step ==
    \A id \in DOMAIN disputed_transactions :
        \A c \in ClientIds, io \in BOOLEAN :
            (last'.kind = "dispute" /\ Dispute(c, id, io))
            => Untouched /\ status' = "running" /\ last'.note # "applied"

\* C6: no step applies a second hold for an open dispute.
C6_NoDoubleHold == [][C6_Step]_vars

\* a second Dispute of a held deposit was turned away
C6_Witness ==
    /\ last.kind = "dispute" /\ last.note = "already disputed"
    /\ \E c \in DOMAIN clients : clients[c].held > 0

\* C7: a Resolve or Chargeback of an id with no open dispute changes no
\* account, lock or dispute entry, and the run goes on.
C7_Step ==
    \A id \in TxIds \ DOMAIN disputed_transactions :
        \A c \in ClientIds :
            (last'.kind \in {"resolve", "chargeback"}
               /\ (Resolve(c, id) \/ Chargeback(c, id)))
            => Untouched /\ status' = "running" /\ last'.note = "not disputed"

\* C7: no step resolves or charges back an id with no open dispute.
C7_NotDisputedRejected == [][C7_Step]_vars

\* a Resolve of a registered deposit that is not under dispute was turned away
C7_Witness ==
    /\ last.kind = "resolve" /\ last.note = "not disputed"
    /\ \E id \in DOMAIN processed_transactions :
          processed_transactions[id].kind = "deposit"

\* the amount of the row registered under id
AmountOf(id) == processed_transactions[id].amount[1]

\* C8: an applied Dispute of a deposit moves the deposit's amount from
\* available to held and leaves total and locked alone; an applied Resolve
\* moves the same amount back; a Dispute followed at once by a Resolve of the
\* same id leaves the account as it was before the Dispute.
C8_DisputeStep ==
    \A c \in ClientIds, id \in DOMAIN processed_transactions :
        (last'.kind = "dispute" /\ last'.note = "applied" /\ Dispute(c, id, TRUE))
        => /\ processed_transactions[id].kind = "deposit"
           /\ clients'[c] = [Account(c) EXCEPT !.available = @ - AmountOf(id),
                                                !.held = @ + AmountOf(id)]
           /\ \A d \in DOMAIN clients \ {c} : clients'[d] = clients[d]

C8_ResolveStep ==
    \A c \in ClientIds, id \in DOMAIN processed_transactions :
        (last'.kind = "resolve" /\ last'.note = "applied" /\ Resolve(c, id))
        => /\ clients'[c] = [Account(c) EXCEPT !.available = @ + AmountOf(id),
                                                !.held = @ - AmountOf(id)]
           /\ \A d \in DOMAIN clients \ {c} : clients'[d] = clients[d]

C8_RoundTrip ==
    (pre # None /\ pre[1].stage = "resolved")
        => clients[pre[1].client] = pre[1].account

\* C8: Dispute and Resolve move the deposit's amount there and back, and a
\* Dispute with the Resolve right after it restores the account.
C8_DisputeResolveRoundTrip ==
    []C8_RoundTrip /\ [][C8_DisputeStep /\ C8_ResolveStep]_vars

\* C9: a Dispute, Resolve or Chargeback of an unknown id, or of a transaction
\* of another client, changes no account and no dispute entry, and the run
\* goes on.
C9_Step ==
    \A c \in ClientIds, id \in TxIds :
        (/\ last'.kind \in {"dispute", "resolve", "chargeback"}
         /\ \/ id \notin DOMAIN processed_transactions
            \/ processed_transactions[id].client # c
         /\ \/ \E io \in BOOLEAN : Dispute(c, id, io)
            \/ Resolve(c, id)
            \/ Chargeback(c, id))
        => Untouched /\ status' = "running" /\ last'.note # "applied"

\* C9: no step acts on an unknown id or on another client's transaction.
C9_UnknownOrForeignRejected == [][C9_Step]_vars

\* a Chargeback by another client than the disputed deposit's was turned away
C9_Witness ==
    /\ last.kind = "chargeback" /\ last.note = "tx clients mismatch"
    /\ disputed_transactions # <<>>

\* C10: a Dispute of a registered Withdrawal is skipped with nothing changed,
\* every open dispute is on a Deposit, and Engine::resolve never reaches its
\* unreachable!().
C10_OnlyDeposits ==
    /\ \A id \in DOMAIN disputed_transactions :
          disputed_transactions[id].kind = "deposit"
    /\ status # "panicked"

C10_Step ==
    \A c \in ClientIds, id \in DOMAIN processed_transactions :
        (/\ last'.kind = "dispute"
         /\ processed_transactions[id].kind = "withdrawal"
         /\ \E io \in BOOLEAN : Dispute(c, id, io))
        => Untouched /\ status' = "running" /\ last'.note # "applied"

\* C10: only deposits are ever under dispute, and a Dispute of a Withdrawal
\* changes nothing.
C10_WithdrawalNeverDisputed == []C10_OnlyDeposits /\ [][C10_Step]_vars

\* a Dispute by its own client of a registered Withdrawal was turned away
C10_Witness ==
    /\ last.kind = "dispute"
    /\ last.note = "only deposit tx can be disputed"
    /\ \E id \in DOMAIN processed_transactions :
          processed_transactions[id].kind = "withdrawal"

\* C11: a Deposit or Withdrawal with no amount ends the run at that row with
\* the missing-amount error, whatever the state of the engine: nothing is
\* changed by the row, and no account map is returned.  Stated of every row
\* that can follow a reachable state, and of the state such a row leaves.
C11_MissingAmountFatal ==
    /\ Running =>
          \A kind \in {"deposit", "withdrawal"}, c \in ClientIds, id \in TxIds :
              LET next == after(Transaction(kind, c, id, None), TRUE) IN
              /\ next.status = "failed"
              /\ next.note = "missing amount field"
              /\ next.clients = clients
              /\ next.processed_transactions = processed_transactions
              /\ next.disputed_transactions = disputed_transactions
    /\ last.note = "missing amount field"
          => status = "failed" /\ last.kind \in {"deposit", "withdrawal"}

\* the run ended on a Withdrawal without amount, after a deposit was registered
C11_Witness ==
    /\ status = "failed"
    /\ last.kind = "withdrawal" /\ last.note = "missing amount field"
    /\ processed_transactions # <<>>

\* C12: every row that is handled without a fatal error, of whichever kind,
\* leaves an account for the client it names, a new one having zero balances
\* and locked = FALSE.
C12_Step ==
    \A c \in ClientIds, id \in TxIds :
        (/\ \/ \E am \in Amounts : Deposit(c, id, am) \/ Withdrawal(c, id, am)
            \/ \E io \in BOOLEAN : Dispute(c, id, io)
            \/ Resolve(c, id)
            \/ Chargeback(c, id)
         /\ status' = "running")
        => /\ c \in DOMAIN clients'
           /\ c \notin DOMAIN clients /\ last'.note # "applied" => clients'[c] = NewClient

\* C12: no row is handled without leaving an account for its client.
C12_AccountOnFirstReference == [][C12_Step]_vars

\* C13: a Dispute of a registered id whose stored row cannot be read again
\* ends the run.
C13_Step ==
    \A c \in ClientIds, id \in DOMAIN processed_transactions :
        Dispute(c, id, FALSE) => status' = "failed"

\* C13: no Dispute whose lookup fails at the re-read is passed over.
C13_LookupFailureFatal == [][C13_Step]_vars

\* the value with every digit after the 4th fractional digit dropped
C14_Keep4(x) == (trunc(x * 10000, Unit) * Unit) \div 10000

\* C14: every account is written with available, held and total cut to 4
\* fractional digits, the first 4 kept as they are.
C14_TruncatedToFourDigits ==
    \A c \in DOMAIN report :
        /\ report[c].available = C14_Keep4(clients[c].available)
        /\ report[c].held = C14_Keep4(clients[c].held)
        /\ report[c].total = C14_Keep4(clients[c].total)

\* the ids whose deposit was charged back
ChargedBack == {id \in DOMAIN closed : closed[id] = "chargeback"}

\* C15: once a Chargeback was applied for an id, the id is under dispute in no
\* later state, its account is locked, and every later Dispute, Resolve or
\* Chargeback naming the id, by whichever client, is turned away with no
\* account and no dispute entry changed.
C15_ChargebackIsFinal ==
    \A id \in ChargedBack :
        /\ id \in DOMAIN processed_transactions
        /\ id \notin DOMAIN disputed_transactions
        /\ clients[processed_transactions[id].client].locked
        /\ Running =>
              \A c \in ClientIds, io \in BOOLEAN,
                 kind \in {"dispute", "resolve", "chargeback"} :
                  LET next == after(Transaction(kind, c, id, None), io) IN
                  /\ next.note # "applied"
                  /\ next.status = "running"
                  /\ next.clients = clients
                  /\ next.disputed_transactions = disputed_transactions

\* the only deposit registered was charged back, and a later Dispute of it by
\* its client was turned away at the lock
C15_Witness ==
    /\ ChargedBack # {}
    /\ DOMAIN processed_transactions = ChargedBack
    /\ last.kind = "dispute" /\ last.note = "client locked"

\* C16: a Deposit or Withdrawal registers its id when, and only when, it is
\* applied; a row that changed its account leaves its id registered; no row
\* removes or alters an entry; the id of a Deposit or Withdrawal that was
\* passed over (locked account) is not registered by it, and a Dispute of an
\* id that is not registered is turned away as an unknown id.
C16_Money(kind, c, id, am) ==
    LET tx == Transaction(kind, c, id, am)
        next == after(tx, TRUE)
    IN  /\ next.note = "applied"
             => /\ id \notin DOMAIN processed_transactions
                /\ next.processed_transactions = Insert(processed_transactions, id, tx)
        /\ next.note # "applied"
             => next.processed_transactions = processed_transactions
        /\ (c \in DOMAIN next.clients /\ next.clients[c] # Account(c))
             => id \in DOMAIN next.processed_transactions
        /\ (next.status = "running" /\ next.note # "applied")
             => next.note = "client locked" /\ Account(c).locked

C16_Unknown(c, id, io) ==
    LET next == after(Transaction("dispute", c, id, None), io)
    IN  /\ next.note = "id not found"
        /\ next.status = "running"
        /\ next.clients = clients
        /\ next.disputed_transactions = disputed_transactions

C16_Registered ==
    /\ \A id \in DOMAIN processed_transactions :
          /\ processed_transactions[id].kind \in {"deposit", "withdrawal"}
          /\ processed_transactions[id].id = id
          /\ processed_transactions[id].amount # None
    /\ Running =>
          /\ \A kind \in {"deposit", "withdrawal"}, c \in ClientIds, id \in TxIds,
                am \in Amounts : C16_Money(kind, c, id, am)
          /\ \A kind \in {"dispute", "resolve", "chargeback"}, c \in ClientIds,
                id \in TxIds, io \in BOOLEAN :
                after(Transaction(kind, c, id, None), io).processed_transactions
                    = processed_transactions
          /\ \A id \in TxIds \ DOMAIN processed_transactions :
                \A c \in ClientIds, io \in BOOLEAN : C16_Unknown(c, id, io)

\* C16: the index holds the ids of the applied Deposits and Withdrawals and
\* nothing is ever taken out of it.
C16_IndexOfAppliedOnly ==
    []C16_Registered
    /\ [][\A id \in DOMAIN processed_transactions :
              /\ id \in DOMAIN processed_transactions'
              /\ processed_transactions'[id] = processed_transactions[id]]_vars

\* a Deposit on a locked account was passed over, its id is not registered,
\* and a later Dispute was turned away for an unknown id
C16_Witness ==
    /\ skipped \ DOMAIN processed_transactions # {}
    /\ last.kind = "dispute" /\ last.note = "id not found"
    /\ \E c \in DOMAIN clients : clients[c].locked

\* C17: a Deposit or Withdrawal with a negative amount leaves available and
\* total of its account as they were, so that no account has available or
\* total below zero.
C17_Step ==
    \A c \in ClientIds, id \in TxIds, a \in AmountValues :
        (a < 0 /\ (Deposit(c, id, Some(a)) \/ Withdrawal(c, id, Some(a))))
        => /\ clients'[c].available = Account(c).available
           /\ clients'[c].total = Account(c).total

\* C17: no balance is driven below zero and no negative amount is applied.
C17_NegativeAmountNotApplied ==
    [](\A c \in DOMAIN clients : clients[c].available >= 0 /\ clients[c].total >= 0)
    /\ [][C17_Step]_vars

\* the sum of the amounts of the transactions of m registered under ids
RECURSIVE SumAmounts(_, _)
SumAmounts(m, ids) ==
    IF ids = {} THEN 0
    ELSE LET id == CHOOSE i \in ids : TRUE
         IN  m[id].amount[1] + SumAmounts(m, ids \ {id})

\* the open disputes on deposits of client c
OpenDisputes(c) ==
    {id \in DOMAIN disputed_transactions : disputed_transactions[id].client = c}

C18_HeldIsSum ==
    /\ \A c \in DOMAIN clients :
          clients[c].held = SumAmounts(disputed_transactions, OpenDisputes(c))
    /\ \A id \in DOMAIN disputed_transactions :
          disputed_transactions[id].client \in DOMAIN clients

C18_HeldSuffices ==
    /\ \A id \in DOMAIN disputed_transactions :
          clients[disputed_transactions[id].client].held
              >= disputed_transactions[id].amount[1]
    /\ last.note # "insufficient funds held"

\* C18: the held funds of every client are the sum of the amounts of its
\* deposits under dispute, and the held >= amount check of resolve and
\* chargeback never fails.
C18_HeldIsSumOfOpenDisputes == C18_HeldIsSum /\ C18_HeldSuffices

\* the registered transactions of client c of the given kind
RegisteredOf(c, kind) ==
    {id \in DOMAIN processed_transactions :
        processed_transactions[id].client = c /\ processed_transactions[id].kind = kind}

\* C19: the total of every account is the sum of the Deposits less the
\* Withdrawals and the chargebacks that went through on it; while the run has
\* not failed that is the sum of the client's registered Deposits, less its
\* registered Withdrawals, less its deposits charged back.
C19_Ledger ==
    /\ \A c \in DOMAIN clients \cup DOMAIN booked : Account(c).total = Booked(c)
    /\ status # "failed" =>
          \A c \in DOMAIN clients :
              clients[c].total =
                  SumAmounts(processed_transactions, RegisteredOf(c, "deposit"))
                  - SumAmounts(processed_transactions, RegisteredOf(c, "withdrawal"))
                  - SumAmounts(processed_transactions,
                               RegisteredOf(c, "deposit") \cap ChargedBack)

\* a Dispute or a Resolve leaves the total of every account as it was
C19_Step ==
    last'.kind \in {"dispute", "resolve"}
        => \A c \in DOMAIN clients' : clients'[c].total = Account(c).total

\* C19: total is deposits less withdrawals less chargebacks, and Dispute and
\* Resolve never change it.
C19_TotalIsDepositsLessWithdrawalsAndChargebacks == []C19_Ledger /\ [][C19_Step]_vars

\* the ids whose latest ended dispute was resolved and that are not under
\* dispute again
Resolved ==
    {id \in DOMAIN closed : closed[id] = "resolve"} \ DOMAIN disputed_transactions

\* C20: a Resolve closes the dispute entry, and a later Dispute of a resolved
\* deposit by its client, the account being unlocked and holding the amount
\* in available and total, is applied again: the amount is held again and the
\* entry is open again.  After a Chargeback no Dispute of the id is applied.
C20_LifecycleRepeats ==
    /\ (pre # None /\ pre[1].stage = "resolved")
          => pre[1].id \in Resolved
    /\ Running =>
          \A id \in Resolved :
              LET tx == processed_transactions[id]
                  c == tx.client
                  next == after(Transaction("dispute", c, id, None), TRUE)
              IN  (/\ ~clients[c].locked
                   /\ clients[c].available >= tx.amount[1]
                   /\ clients[c].total >= tx.amount[1])
                  => /\ next.note = "applied"
                     /\ next.status = "running"
                     /\ next.clients =
                            [clients EXCEPT ![c].available = sub(@, tx.amount[1]),
                                            ![c].held = add(@, tx.amount[1])]
                     /\ next.disputed_transactions = Insert(disputed_transactions, id, tx)
    /\ Running =>
          \A id \in ChargedBack, c \in ClientIds :
              after(Transaction("dispute", c, id, None), TRUE).note # "applied"

\* a deposit was disputed, resolved and disputed again, its amount being held
C20_Witness ==
    /\ last.kind = "dispute" /\ Applied
    /\ \E id \in DOMAIN disputed_transactions :
          /\ id \in DOMAIN closed /\ closed[id] = "resolve"
          /\ disputed_transactions[id].amount[1] > 0
          /\ clients[disputed_transactions[id].client].held > 0

====
